---- MODULE Spec2Model ----
(***************************************************************************)
(* A model of redipy's symbolic script builder (redipy/symbolic/seq.py)    *)
(* and of the in-memory builtin functions (redipy/memory/gfun.py).         *)
(*                                                                         *)
(* Python objects are records tagged with their class (cls) or, for plain  *)
(* values, with their Python type (py).  Sequence objects live in a heap,  *)
(* seqs, indexed by object id; the script scope (FnContext) is object 1.   *)
(***************************************************************************)
EXTENDS Integers, Sequences, FiniteSets, TLC

VARIABLES
    seqs,      \* heap of Sequence objects: seqs[id] is the object's _seq list
    args,      \* FnContext._args   : list of (name, JSONArg)
    keys,      \* FnContext._keys   : list of (name, KeyVariable)
    anames,    \* FnContext._anames : set of argument names
    knames,    \* FnContext._knames : set of key names
    locals,    \* FnContext._locals : list of LocalVariable
    loops,     \* FnContext._loops  : loop id counter
    log,       \* history: the builder calls made so far with their results
    ret,       \* the value returned (or the error raised) by the last call
    fargs,     \* argument list handed to a builtin function call
    fret,      \* result of the builtin function call
    fpc,       \* position of the builtin caller: "ready" or "done"
    fname,     \* dispatch name of the builtin function being called
    stdout     \* the log sink: the lines printed so far

bvars == <<seqs, args, keys, anames, knames, locals, loops, log, ret>>
fvars == <<fargs, fret, fpc, fname, stdout>>
vars == <<seqs, args, keys, anames, knames, locals, loops, log, ret,
          fargs, fret, fpc, fname, stdout>>

----------------------------------------------------------------------------
(* Bounds of the model *)

\* number of builder calls explored
MaxCalls == 4
\* number of Sequence objects on the heap
MaxSeqs == 4
\* longest string handed to string.find
MaxStrLen == 3
\* largest start offset handed to string.find
MaxStart == 4

\* names the client declares
Names == {"a", "b"}

----------------------------------------------------------------------------
(* Python values *)

None == [py |-> "NoneType"]
PyInt(n) == [py |-> "int", v |-> n]
\* a str holds its text as a sequence of one-character strings
PyStr(s) == [py |-> "str", v |-> s]
\* an expression object built by the client (redipy.symbolic.expr)
ExtExpr(id) == [py |-> "Expr", op |-> "ext", v |-> id]

\* isinstance(value, Expr)
IsExpr(value) == value.py = "Expr"

\* lit_helper: an expression is passed through, a plain value is wrapped
lit_helper(value) ==
    IF IsExpr(value) THEN value ELSE [py |-> "Expr", op |-> "lit", v |-> value]

\* Expr.compile: the expression node of an expression
Expr_compile(e) == [kind |-> e.op, value |-> e.v]

\* the object id of the script scope
Root == 1

\* the ValueError raised on a naming conflict
ValueError(msg, name) == [py |-> "ValueError", msg |-> msg, name |-> name]

----------------------------------------------------------------------------
(* redipy.symbolic.core: variables and the command helper *)

\* JSONArg(name), KeyVariable(name) and LocalVariable(init) after set_index
JSONArg(name, index) == [py |-> "JSONArg", name |-> name, index |-> index]
KeyVariable(name, index) ==
    [py |-> "KeyVariable", name |-> name, index |-> index]
LocalVariable(init, index) ==
    [py |-> "LocalVariable", init |-> init, index |-> index]

\* Variable.get_declare: the declare statement of a declared variable
Variable_get_declare(v) ==
    CASE v.py = "JSONArg" ->
            [kind |-> "declare", var |-> [kind |-> "arg", index |-> v.index],
             name |-> v.name]
      [] v.py = "KeyVariable" ->
            [kind |-> "declare", var |-> [kind |-> "key", index |-> v.index],
             name |-> v.name]
      [] v.py = "LocalVariable" ->
            [kind |-> "declare", var |-> [kind |-> "var", index |-> v.index],
             value |-> Expr_compile(lit_helper(v.init))]

\* CmdHelper(fn): a Compilable whose compile() calls fn.  The three closures
\* the builder creates are kept by name together with what they capture.
CmdHelper_stmt(stmt) == [py |-> "CmdHelper", fn |-> "stmt", stmt |-> stmt]
CmdHelper_declare(v) == [py |-> "CmdHelper", fn |-> "get_declare", var |-> v]
CmdHelper_return_none == [py |-> "CmdHelper", fn |-> "return_none"]
CmdHelper_return(expr) ==
    [py |-> "CmdHelper", fn |-> "return_expr", expr |-> expr]

\* isinstance(term, Compilable)
IsCompilable(term) ==
    term.py \in {"CmdHelper", "Branch", "ForLoop", "WhileLoop"}

----------------------------------------------------------------------------
(* class Sequence *)

\* Sequence.add inserting the entry at the front of the list
Sequence_add_front(heap, self, term) ==
    IF IsCompilable(term)
    THEN [heap EXCEPT ![self] = <<term>> \o @]
    ELSE LET stmt == [kind |-> "stmt", expr |-> Expr_compile(term)]
         IN  [heap EXCEPT ![self] = <<CmdHelper_stmt(stmt)>> \o @]

\* Sequence.add: the heap after self.add(term)
Sequence_add(heap, self, term) ==
    IF IsCompilable(term)
    THEN [heap EXCEPT ![self] = Append(@, term)]
    ELSE LET stmt == [kind |-> "stmt", expr |-> Expr_compile(term)]
         IN  [heap EXCEPT ![self] = Append(@, CmdHelper_stmt(stmt))]

\* Sequence.is_empty
Sequence_is_empty(heap, self) == heap[self] = <<>>

\* Seq(ctx) / Sequence.__init__: a new Sequence object with an empty _seq
Sequence_init(heap) == Append(heap, <<>>)

----------------------------------------------------------------------------
(* control-flow nodes and variables of a for loop *)

IndexVariable(index) == [py |-> "IndexVariable", index |-> index]
ValueVariable(index) == [py |-> "ValueVariable", index |-> index]

\* IndexVariable.prefix / ValueVariable.prefix
Variable_prefix(v) == IF v.py = "IndexVariable" THEN "ix" ELSE "val"

\* IndexVariable.get_index_ref
IndexVariable_get_index_ref(v) ==
    [kind |-> "index", name |-> Variable_prefix(v) \o "_" \o ToString(v.index)]

\* ValueVariable.get_var_ref
ValueVariable_get_var_ref(v) ==
    [kind |-> "var", name |-> Variable_prefix(v) \o "_" \o ToString(v.index)]

\* Branch.__init__ on a heap where the two Seq objects get the next two ids
Branch_init(heap, condition) ==
    [py |-> "Branch", condition |-> lit_helper(condition),
     success |-> Len(heap) + 1, failure |-> Len(heap) + 2]

\* ForLoop.__init__ with the loop id obtained from ctx.add_loop()
ForLoop_init(heap, loop_ix, array) ==
    [py |-> "ForLoop", ix |-> IndexVariable(loop_ix),
     val |-> ValueVariable(loop_ix), loop |-> Len(heap) + 1, array |-> array]

\* WhileLoop.__init__
WhileLoop_init(heap, condition) ==
    [py |-> "WhileLoop", condition |-> lit_helper(condition),
     loop |-> Len(heap) + 1]

\* FnContext.add_loop without the increment
FnContext_add_loop_noinc(l) == [ret |-> l, loops |-> l]

\* FnContext.add_loop: the id returned and the counter afterwards
FnContext_add_loop(l) == [ret |-> l, loops |-> l + 1]

----------------------------------------------------------------------------
(* compile *)

RECURSIVE Compilable_compile(_, _)
RECURSIVE Sequence_get_cmds(_, _)

\* Sequence.get_cmds: [stmt.compile() for stmt in self._seq]
Sequence_get_cmds(heap, self) ==
    [i \in 1..Len(heap[self]) |-> Compilable_compile(heap, heap[self][i])]

\* Seq.compile
Seq_compile(heap, self) ==
    [kind |-> "seq", cmds |-> Sequence_get_cmds(heap, self)]

\* CmdHelper.compile: the result of the closure
CmdHelper_compile(c) ==
    CASE c.fn = "stmt" -> c.stmt
      [] c.fn = "get_declare" -> Variable_get_declare(c.var)
      [] c.fn = "return_none" -> [kind |-> "return", value |-> None]
      [] c.fn = "return_expr" ->
            [kind |-> "return", value |-> Expr_compile(c.expr)]

\* Branch.compile leaving out an else branch that has no entries
Branch_compile_skip_else(heap, b) ==
    [kind |-> "branch",
     condition |-> Expr_compile(b.condition),
     then |-> Seq_compile(heap, b.success),
     else |-> IF heap[b.failure] = <<>>
              THEN None
              ELSE Seq_compile(heap, b.failure)]

\* Branch.compile
Branch_compile(heap, b) ==
    [kind |-> "branch",
     condition |-> Expr_compile(b.condition),
     then |-> Seq_compile(heap, b.success),
     else |-> Seq_compile(heap, b.failure)]

\* ForLoop.compile
ForLoop_compile(heap, f) ==
    [kind |-> "for",
     array |-> Expr_compile(f.array),
     index |-> IndexVariable_get_index_ref(f.ix),
     value |-> ValueVariable_get_var_ref(f.val),
     body |-> Seq_compile(heap, f.loop)]

\* WhileLoop.compile
WhileLoop_compile(heap, w) ==
    [kind |-> "while",
     condition |-> Expr_compile(w.condition),
     body |-> Seq_compile(heap, w.loop)]

\* stmt.compile() dispatched on the class of the entry
Compilable_compile(heap, c) ==
    CASE c.py = "CmdHelper" -> CmdHelper_compile(c)
      [] c.py = "Branch" -> Branch_compile(heap, c)
      [] c.py = "ForLoop" -> ForLoop_compile(heap, c)
      [] c.py = "WhileLoop" -> WhileLoop_compile(heap, c)

\* FnContext.compile listing the argument names for the keys as well
FnContext_compile_keyv_args ==
    [kind |-> "script",
     cmds |-> Sequence_get_cmds(seqs, Root),
     argv |-> [i \in 1..Len(args) |-> args[i][1]],
     keyv |-> [i \in 1..Len(args) |-> args[i][1]]]

\* FnContext.compile on the current state
FnContext_compile ==
    [kind |-> "script",
     cmds |-> Sequence_get_cmds(seqs, Root),
     argv |-> [i \in 1..Len(args) |-> args[i][1]],
     keyv |-> [i \in 1..Len(keys) |-> keys[i][1]]]

----------------------------------------------------------------------------
(* The builder calls a client can make *)

\* expressions the client adds as statements
Exprs == {ExtExpr("x"), ExtExpr("y")}
\* expressions the client iterates over with for_
Arrays == {ExtExpr("x")}
\* conditions (MixedType) the client passes to if_ and while_
Conds == {PyInt(1)}
\* initial values (MixedType) the client passes to add_local
Inits == {PyInt(1)}
\* values (MixedType) the client passes to set_return_value
RetVals == {None, PyInt(1), ExtExpr("x")}

\* the record of one call in the history
Call(op, self, arg, ok, r) ==
    [op |-> op, self |-> self, arg |-> arg, ok |-> ok, ret |-> r]

\* self.add(term) on any sequence, with an expression
add(self, term) ==
    /\ Len(log) < MaxCalls
    /\ seqs' = Sequence_add(seqs, self, term)
    /\ ret' = None
    /\ log' = Append(log, Call("add", self, term, TRUE, ret'))
    /\ UNCHANGED <<args, keys, anames, knames, locals, loops>>

\* self.for_(array)
for_(self, array) ==
    /\ Len(log) < MaxCalls
    /\ Len(seqs) + 1 <= MaxSeqs
    /\ LET al == FnContext_add_loop(loops)
           loop == ForLoop_init(seqs, al.ret, array)
       IN  /\ loops' = al.loops
           /\ seqs' = Sequence_add(Sequence_init(seqs), self, loop)
           /\ ret' = <<loop.loop, loop.ix, loop.val>>
    /\ log' = Append(log, Call("for_", self, array, TRUE, ret'))
    /\ UNCHANGED <<args, keys, anames, knames, locals>>

\* self.if_(condition)
if_(self, condition) ==
    /\ Len(log) < MaxCalls
    /\ Len(seqs) + 2 <= MaxSeqs
    /\ LET branch == Branch_init(seqs, condition)
       IN  /\ seqs' = Sequence_add(Sequence_init(Sequence_init(seqs)),
                                   self, branch)
           /\ ret' = <<branch.success, branch.failure>>
    /\ log' = Append(log, Call("if_", self, condition, TRUE, ret'))
    /\ UNCHANGED <<args, keys, anames, knames, locals, loops>>

\* self.while_(condition) adding the loop to the script scope (self._ctx)
while_on_ctx(self, condition) ==
    /\ Len(log) < MaxCalls
    /\ Len(seqs) + 1 <= MaxSeqs
    /\ LET loop == WhileLoop_init(seqs, condition)
       IN  /\ seqs' = Sequence_add(Sequence_init(seqs), Root, loop)
           /\ ret' = loop.loop
    /\ log' = Append(log, Call("while_", self, condition, TRUE, ret'))
    /\ UNCHANGED <<args, keys, anames, knames, locals, loops>>

\* self.while_(condition)
while_(self, condition) ==
    /\ Len(log) < MaxCalls
    /\ Len(seqs) + 1 <= MaxSeqs
    /\ LET loop == WhileLoop_init(seqs, condition)
       IN  /\ seqs' = Sequence_add(Sequence_init(seqs), self, loop)
           /\ ret' = loop.loop
    /\ log' = Append(log, Call("while_", self, condition, TRUE, ret'))
    /\ UNCHANGED <<args, keys, anames, knames, locals, loops>>

\* ctx.add_arg(name) looking the name up among the key names
add_arg_in_knames(name) ==
    /\ Len(log) < MaxCalls
    /\ IF name \in knames
       THEN /\ ret' = ValueError("ambiguous arg name", name)
            /\ log' = Append(log, Call("add_arg", Root, name, FALSE, ret'))
            /\ UNCHANGED <<seqs, args, keys, anames, knames, locals, loops>>
       ELSE LET arg == JSONArg(name, Len(args))
            IN  /\ args' = Append(args, <<name, arg>>)
                /\ anames' = anames \cup {name}
                /\ seqs' = Sequence_add(seqs, Root, CmdHelper_declare(arg))
                /\ ret' = arg
                /\ log' = Append(log, Call("add_arg", Root, name, TRUE, ret'))
                /\ UNCHANGED <<keys, knames, locals, loops>>

\* ctx.add_arg(name)
add_arg(name) ==
    /\ Len(log) < MaxCalls
    /\ IF name \in anames
       THEN /\ ret' = ValueError("ambiguous arg name", name)
            /\ log' = Append(log, Call("add_arg", Root, name, FALSE, ret'))
            /\ UNCHANGED <<seqs, args, keys, anames, knames, locals, loops>>
       ELSE LET arg == JSONArg(name, Len(args))
            IN  /\ args' = Append(args, <<name, arg>>)
                /\ anames' = anames \cup {name}
                /\ seqs' = Sequence_add(seqs, Root, CmdHelper_declare(arg))
                /\ ret' = arg
                /\ log' = Append(log, Call("add_arg", Root, name, TRUE, ret'))
                /\ UNCHANGED <<keys, knames, locals, loops>>

\* ctx.add_key(name) taking the index from the argument list
add_key_args_len(name) ==
    /\ Len(log) < MaxCalls
    /\ IF name \in knames
       THEN /\ ret' = ValueError("ambiguous key name", name)
            /\ log' = Append(log, Call("add_key", Root, name, FALSE, ret'))
            /\ UNCHANGED <<seqs, args, keys, anames, knames, locals, loops>>
       ELSE LET key == KeyVariable(name, Len(args))
            IN  /\ keys' = Append(keys, <<name, key>>)
                /\ knames' = knames \cup {name}
                /\ seqs' = Sequence_add(seqs, Root, CmdHelper_declare(key))
                /\ ret' = key
                /\ log' = Append(log, Call("add_key", Root, name, TRUE, ret'))
                /\ UNCHANGED <<args, anames, locals, loops>>

\* ctx.add_key(name) registering the key before the name is checked
add_key_register_first(name) ==
    /\ Len(log) < MaxCalls
    /\ IF name \in knames
       THEN /\ keys' = Append(keys, <<name, KeyVariable(name, Len(keys))>>)
            /\ ret' = ValueError("ambiguous key name", name)
            /\ log' = Append(log, Call("add_key", Root, name, FALSE, ret'))
            /\ UNCHANGED <<seqs, args, anames, knames, locals, loops>>
       ELSE LET key == KeyVariable(name, Len(keys))
            IN  /\ keys' = Append(keys, <<name, key>>)
                /\ knames' = knames \cup {name}
                /\ seqs' = Sequence_add(seqs, Root, CmdHelper_declare(key))
                /\ ret' = key
                /\ log' = Append(log, Call("add_key", Root, name, TRUE, ret'))
                /\ UNCHANGED <<args, anames, locals, loops>>

\* ctx.add_key(name)
add_key(name) ==
    /\ Len(log) < MaxCalls
    /\ IF name \in knames
       THEN /\ ret' = ValueError("ambiguous key name", name)
            /\ log' = Append(log, Call("add_key", Root, name, FALSE, ret'))
            /\ UNCHANGED <<seqs, args, keys, anames, knames, locals, loops>>
       ELSE LET key == KeyVariable(name, Len(keys))
            IN  /\ keys' = Append(keys, <<name, key>>)
                /\ knames' = knames \cup {name}
                /\ seqs' = Sequence_add(seqs, Root, CmdHelper_declare(key))
                /\ ret' = key
                /\ log' = Append(log, Call("add_key", Root, name, TRUE, ret'))
                /\ UNCHANGED <<args, anames, locals, loops>>

\* ctx.add_local(init) declaring in the sequence created last
add_local_in_last(init) ==
    /\ Len(log) < MaxCalls
    /\ LET local == LocalVariable(init, Len(locals))
       IN  /\ locals' = Append(locals, local)
           /\ seqs' = Sequence_add(seqs, Len(seqs), CmdHelper_declare(local))
           /\ ret' = local
    /\ log' = Append(log, Call("add_local", Root, init, TRUE, ret'))
    /\ UNCHANGED <<args, keys, anames, knames, loops>>

\* ctx.add_local(init)
add_local(init) ==
    /\ Len(log) < MaxCalls
    /\ LET local == LocalVariable(init, Len(locals))
       IN  /\ locals' = Append(locals, local)
           /\ seqs' = Sequence_add(seqs, Root, CmdHelper_declare(local))
           /\ ret' = local
    /\ log' = Append(log, Call("add_local", Root, init, TRUE, ret'))
    /\ UNCHANGED <<args, keys, anames, knames, loops>>

\* ctx.set_return_value(value) without the early return after the None case
set_return_value_fallthrough(value) ==
    /\ Len(log) < MaxCalls
    /\ IF value = None
       THEN seqs' = Sequence_add(
                        Sequence_add(seqs, Root, CmdHelper_return_none),
                        Root, CmdHelper_return(lit_helper(value)))
       ELSE seqs' = Sequence_add(seqs, Root,
                                 CmdHelper_return(lit_helper(value)))
    /\ ret' = None
    /\ log' = Append(log, Call("set_return_value", Root, value, TRUE, ret'))
    /\ UNCHANGED <<args, keys, anames, knames, locals, loops>>

\* ctx.set_return_value(value)
set_return_value(value) ==
    /\ Len(log) < MaxCalls
    /\ IF value = None
       THEN seqs' = Sequence_add(seqs, Root, CmdHelper_return_none)
       ELSE seqs' = Sequence_add(seqs, Root,
                                 CmdHelper_return(lit_helper(value)))
    /\ ret' = None
    /\ log' = Append(log, Call("set_return_value", Root, value, TRUE, ret'))
    /\ UNCHANGED <<args, keys, anames, knames, locals, loops>>

\* FnContext.__init__; no builtin call is in progress
Init ==
    /\ seqs = <<(<<>>)>>
    /\ args = <<>>
    /\ keys = <<>>
    /\ anames = {}
    /\ knames = {}
    /\ locals = <<>>
    /\ loops = 0
    /\ log = <<>>
    /\ ret = None
    /\ fargs = <<>>
    /\ fret = None
    /\ fpc = "done"
    /\ fname = "string.find"
    /\ stdout = <<>>

Next ==
    \/ \E self \in 1..Len(seqs), term \in Exprs :
          add(self, term) /\ UNCHANGED fvars
    \/ \E self \in 1..Len(seqs), array \in Arrays :
          for_(self, array) /\ UNCHANGED fvars
    \/ \E self \in 1..Len(seqs), condition \in Conds :
          if_(self, condition) /\ UNCHANGED fvars
    \/ \E self \in 1..Len(seqs), condition \in Conds :
          while_(self, condition) /\ UNCHANGED fvars
    \/ \E name \in Names : add_arg(name) /\ UNCHANGED fvars
    \/ \E name \in Names : add_key(name) /\ UNCHANGED fvars
    \/ \E init \in Inits : add_local(init) /\ UNCHANGED fvars
    \/ \E value \in RetVals : set_return_value(value) /\ UNCHANGED fvars

Spec == Init /\ [][Next]_vars

----------------------------------------------------------------------------
(* Reading the history *)

\* the calls of one operation that returned normally, in call order
Successes(op) == SelectSeq(log, LAMBDA c : c.op = op /\ c.ok)

\* the variable objects registered in a namespace, in list order
Registered(op) ==
    CASE op = "add_arg" -> [k \in 1..Len(args) |-> args[k][2]]
      [] op = "add_key" -> [k \in 1..Len(keys) |-> keys[k][2]]
      [] op = "add_local" -> locals

DeclOps == {"add_arg", "add_key", "add_local"}

\* the position in its target's statement list of the entry call k appended:
\* every call that returns normally appends one entry to its target
PosOf(k) ==
    Cardinality({j \in 1..k : log[j].ok /\ log[j].self = log[k].self})

\* the calls, in order, that returned normally on sequence s
CallsOn(s) == SelectSeq(log, LAMBDA c : c.ok /\ c.self = s)

----------------------------------------------------------------------------
(* C1 *)

\* C1: in each of the three namespaces (arguments, keys, locals) the k-th
\* declaration that succeeded (k from 0) returned a variable with index k,
\* whatever calls, failed ones included, were made in between; the variable
\* registered at place k is still that variable, so no index is handed out
\* twice and none changes afterwards.
C1_IndexIsDeclarationOrder ==
    \A op \in DeclOps :
        LET s == Successes(op)
            h == Registered(op)
        IN  /\ Len(h) = Len(s)
            /\ \A k \in 1..Len(s) :
                  /\ s[k].ret.index = k - 1
                  /\ h[k] = s[k].ret
            /\ \A j, k \in 1..Len(s) :
                  s[j].ret.index = s[k].ret.index => j = k

\* C1 witness: a key declared after an argument, a failed duplicate and a
\* second successful declaration in the same namespace
C1_Witness ==
    /\ Len(log) = 4
    /\ log[1].op = "add_arg" /\ log[1].ok
    /\ log[2].op = "add_key" /\ log[2].ok /\ log[2].ret.index = 0
    /\ log[3].op = "add_key" /\ ~log[3].ok
    /\ log[4].op = "add_key" /\ log[4].ok /\ log[4].ret.index = 1

----------------------------------------------------------------------------
(* C2 *)

\* C2: a call add_arg(name) fails with the naming-conflict error exactly when
\* an earlier add_arg call with the same name succeeded, and add_key(name)
\* fails exactly when an earlier add_key call with the same name succeeded;
\* declarations in the other namespace do not matter, and add_local never
\* fails.
C2_FailsIffDeclaredInNamespace ==
    \A k \in 1..Len(log) :
        LET c == log[k]
            before == \E j \in 1..(k - 1) :
                         /\ log[j].op = c.op
                         /\ log[j].ok
                         /\ log[j].arg = c.arg
        IN  /\ c.op \in {"add_arg", "add_key"} =>
                  /\ ~c.ok <=> before
                  /\ ~c.ok <=> c.ret.py = "ValueError"
            /\ c.op = "add_local" => c.ok /\ c.ret.py = "LocalVariable"

\* C2 witness: name "a" declared as key and then as argument, both
\* succeeding, then again as argument, failing
C2_Witness ==
    /\ Len(log) >= 3
    /\ log[1].op = "add_key" /\ log[1].arg = "a" /\ log[1].ok
    /\ log[2].op = "add_arg" /\ log[2].arg = "a" /\ log[2].ok
    /\ log[3].op = "add_arg" /\ log[3].arg = "a" /\ ~log[3].ok
    /\ log[3].ret.py = "ValueError"

----------------------------------------------------------------------------
(* C3 *)

\* the statement list a sequence compiles to: the script scope through
\* FnContext.compile, every other sequence through Seq.compile
CompiledCmds(s) ==
    IF s = Root THEN FnContext_compile.cmds ELSE Seq_compile(seqs, s).cmds

\* node is the IR node of the entry that call c appended (bodies aside)
NodeMatches(node, c) ==
    CASE c.op = "add" -> node = [kind |-> "stmt", expr |-> Expr_compile(c.arg)]
      [] c.op = "for_" ->
            node.kind = "for" /\ node.array = Expr_compile(c.arg)
      [] c.op = "if_" ->
            /\ node.kind = "branch"
            /\ node.condition = Expr_compile(lit_helper(c.arg))
      [] c.op = "while_" ->
            /\ node.kind = "while"
            /\ node.condition = Expr_compile(lit_helper(c.arg))
      [] c.op \in DeclOps -> node = Variable_get_declare(c.ret)
      [] c.op = "set_return_value" -> node.kind = "return"

\* C3: a sequence to which N entries were added (by add itself or by a
\* builder call that adds) compiles to exactly N nodes, the i-th node being
\* the node of the i-th entry added; with no entry added the list is empty,
\* and is_empty() is true in exactly that case.
C3_CompileKeepsInsertionOrder ==
    \A s \in 1..Len(seqs) :
        LET cmds == CompiledCmds(s)
            calls == CallsOn(s)
        IN  /\ Len(cmds) = Len(calls)
            /\ \A i \in 1..Len(calls) : NodeMatches(cmds[i], calls[i])
            /\ Sequence_is_empty(seqs, s) <=> Len(calls) = 0
            /\ Sequence_is_empty(seqs, s) <=> cmds = <<>>

\* C3 witness: a body with two different statements followed by a loop,
\* next to a sequence that is still empty
C3_Witness ==
    /\ \E s \in 2..Len(seqs) :
          /\ Len(CompiledCmds(s)) = 3
          /\ CallsOn(s)[1].op = "add" /\ CallsOn(s)[1].arg = ExtExpr("x")
          /\ CallsOn(s)[2].op = "add" /\ CallsOn(s)[2].arg = ExtExpr("y")
          /\ CallsOn(s)[3].op = "while_"
    /\ \E t \in 2..Len(seqs) : Sequence_is_empty(seqs, t)

----------------------------------------------------------------------------
(* C4 *)

ControlOps == {"for_", "if_", "while_"}

\* the child sequences a control-flow call returned
Children(c) ==
    CASE c.op = "for_" -> <<c.ret[1]>>
      [] c.op = "if_" -> <<c.ret[1], c.ret[2]>>
      [] c.op = "while_" -> <<c.ret>>

\* the compiled bodies of a control-flow node, in the same order
Bodies(node) ==
    CASE node.kind = "for" -> <<node.body>>
      [] node.kind = "branch" -> <<node.then, node.else>>
      [] node.kind = "while" -> <<node.body>>
      [] OTHER -> <<>>

\* C4: a call of for_, if_ or while_ puts one control-flow node into the
\* sequence it was called on, at the place the call order gives it (one
\* place per successful call on that sequence), and whatever was added to
\* the returned child sequences since then is, in order, the body of that
\* node when the parent is compiled.
C4_ControlNodeAtCallPlace ==
    \A k \in 1..Len(log) :
        log[k].op \in ControlOps =>
            LET c == log[k]
                cmds == CompiledCmds(c.self)
                node == cmds[PosOf(k)]
                ch == Children(c)
            IN  /\ Len(cmds) = Len(CallsOn(c.self))
                /\ PosOf(k) \in 1..Len(cmds)
                /\ NodeMatches(node, c)
                /\ Len(Bodies(node)) = Len(ch)
                /\ \A i \in 1..Len(ch) :
                      LET body == Bodies(node)[i]
                          calls == CallsOn(ch[i])
                      IN  /\ body.kind = "seq"
                          /\ Len(body.cmds) = Len(calls)
                          /\ \A j \in 1..Len(calls) :
                                NodeMatches(body.cmds[j], calls[j])

\* C4 witness: a control-flow call on a child sequence, then another entry
\* in that same sequence, and only then an entry in the returned body
C4_Witness ==
    \E k \in 1..Len(log) :
        /\ k + 2 <= Len(log)
        /\ log[k].op \in ControlOps
        /\ log[k].self # Root
        /\ log[k + 1].self = log[k].self
        /\ log[k + 2].self = Children(log[k])[1]
        /\ Len(Bodies(CompiledCmds(log[k].self)[PosOf(k)])[1].cmds) = 1

----------------------------------------------------------------------------
(* C5 *)

\* the number of for_ calls before call k
ForsBefore(k) == Cardinality({j \in 1..(k - 1) : log[j].op = "for_"})

\* C5: the k-th for-loop created in a script scope (k from 0), wherever it
\* was created and whatever if_ and while_ calls lie in between, has loop id
\* k: its index variable and its value variable both carry k and compile to
\* ix_k and val_k; so two different loops never share an id.
C5_LoopIdsInCreationOrder ==
    /\ loops = Len(Successes("for_"))
    /\ \A k \in 1..Len(log) :
          log[k].op = "for_" =>
              LET c == log[k]
                  n == ForsBefore(k)
                  node == CompiledCmds(c.self)[PosOf(k)]
              IN  /\ c.ret[2] = IndexVariable(n)
                  /\ c.ret[3] = ValueVariable(n)
                  /\ node.kind = "for"
                  /\ node.index = [kind |-> "index",
                                   name |-> "ix_" \o ToString(n)]
                  /\ node.value = [kind |-> "var",
                                   name |-> "val_" \o ToString(n)]
    /\ \A j, k \in 1..Len(log) :
          (log[j].op = "for_" /\ log[k].op = "for_" /\ j # k) =>
              log[j].ret[2].index # log[k].ret[2].index

\* C5 witness: a loop nested in the body of a loop, and a sibling of the
\* outer loop created after both
C5_Witness ==
    /\ Len(log) >= 3
    /\ log[1].op = "for_" /\ log[1].self = Root
    /\ log[2].op = "for_" /\ log[2].self = log[1].ret[1]
    /\ log[3].op = "for_" /\ log[3].self = Root
    /\ log[2].ret[2].index = 1
    /\ log[3].ret[3].index = 2

----------------------------------------------------------------------------
(* C6 *)

\* the names of the successful calls of a declaring operation, in call order
DeclaredNames(op) ==
    [k \in 1..Len(Successes(op)) |-> Successes(op)[k].arg]

\* C6: the script scope compiles to a node of kind "script" whose argv is
\* the list of the argument names that were declared successfully, in the
\* order of their declaration, whose keyv is the same for the keys (so
\* without a duplicate and without the name of a failed call), and whose
\* cmds is the whole statement list of the scope.
C6_ScriptListsDeclaredNames ==
    LET ir == FnContext_compile
    IN  /\ DOMAIN ir = {"kind", "cmds", "argv", "keyv"}
        /\ ir.kind = "script"
        /\ ir.argv = DeclaredNames("add_arg")
        /\ ir.keyv = DeclaredNames("add_key")
        /\ \A i, j \in 1..Len(ir.argv) : ir.argv[i] = ir.argv[j] => i = j
        /\ \A i, j \in 1..Len(ir.keyv) : ir.keyv[i] = ir.keyv[j] => i = j
        /\ Len(ir.cmds) = Len(CallsOn(Root))
        /\ \A i \in 1..Len(ir.cmds) : NodeMatches(ir.cmds[i], CallsOn(Root)[i])

\* C6 witness: arguments b and a declared in that order around a failed
\* duplicate of b, and one key
C6_Witness ==
    /\ Len(log) = 4
    /\ log[1].op = "add_arg" /\ log[1].arg = "b"
    /\ log[2].op = "add_arg" /\ log[2].arg = "b" /\ ~log[2].ok
    /\ log[3].op = "add_arg" /\ log[3].arg = "a"
    /\ log[4].op = "add_key" /\ log[4].arg = "a"
    /\ FnContext_compile.argv = <<"b", "a">>
    /\ FnContext_compile.keyv = <<"a">>

----------------------------------------------------------------------------
(* C7 *)

\* C7: each successful add_arg, add_key and add_local puts its declare
\* statement into the top-level statement list of the script scope at the
\* place its call order gives it among all top-level statements, also when
\* child sequences exist and are being filled; the statement list of a
\* child sequence never holds a declare statement.
C7_DeclareAtTopLevelInCallOrder ==
    /\ \A k \in 1..Len(log) :
          (log[k].op \in DeclOps /\ log[k].ok) =>
              LET cmds == CompiledCmds(Root)
              IN  /\ log[k].self = Root
                  /\ PosOf(k) \in 1..Len(cmds)
                  /\ cmds[PosOf(k)] = Variable_get_declare(log[k].ret)
    /\ Len(CompiledCmds(Root)) = Len(CallsOn(Root))
    /\ \A i \in 1..Len(CallsOn(Root)) :
          CompiledCmds(Root)[i].kind = "declare"
              <=> CallsOn(Root)[i].op \in DeclOps
    /\ \A s \in 2..Len(seqs) :
          \A i \in 1..Len(CompiledCmds(s)) :
              CompiledCmds(s)[i].kind # "declare"

\* C7 witness: a branch opened at top level, a statement put into its
\* success body, then a declaration, which lands after the branch at top
\* level
C7_Witness ==
    /\ Len(log) >= 3
    /\ log[1].op = "if_" /\ log[1].self = Root
    /\ log[2].op = "add" /\ log[2].self = log[1].ret[1]
    /\ log[3].op \in DeclOps /\ log[3].ok
    /\ CompiledCmds(Root)[1].kind = "branch"
    /\ CompiledCmds(Root)[2].kind = "declare"
    /\ Len(CompiledCmds(log[1].ret[1])) = 1

----------------------------------------------------------------------------
(* C8 *)

\* the value a return node carries for the value handed to set_return_value
ReturnValueOf(value) ==
    IF value = None THEN None ELSE Expr_compile(lit_helper(value))

\* C8 as stated: in the compiled script a return node is the final statement
\* of the statement list and carries None for None and the compiled
\* literal/expression otherwise.
C8_ReturnIsFinalStatement ==
    \A k \in 1..Len(log) :
        log[k].op = "set_return_value" =>
            LET cmds == CompiledCmds(Root)
            IN  /\ PosOf(k) = Len(cmds)
                /\ cmds[Len(cmds)] =
                      [kind |-> "return", value |-> ReturnValueOf(log[k].arg)]

\* C8 amended: set_return_value(v) appends exactly one return node to the
\* end of the statement list of the script scope as it is at the call: the
\* node is the final statement right after the call and keeps the place its
\* call order gives it when later calls add to the scope; it carries None
\* for None and the compiled literal/expression of v otherwise.
C8_ReturnAppendedAtCall ==
    /\ \A k \in 1..Len(log) :
          log[k].op = "set_return_value" =>
              LET cmds == CompiledCmds(Root)
              IN  /\ PosOf(k) \in 1..Len(cmds)
                  /\ cmds[PosOf(k)] =
                        [kind |-> "return",
                         value |-> ReturnValueOf(log[k].arg)]
                  /\ k = Len(log) => PosOf(k) = Len(cmds)
    /\ Cardinality({i \in 1..Len(CompiledCmds(Root)) :
                       CompiledCmds(Root)[i].kind = "return"})
          = Len(Successes("set_return_value"))

\* C8 witness: a return of None, a return of a literal and a return of an
\* expression, the last one followed by a further top-level statement
C8_Witness ==
    /\ Len(log) = 4
    /\ log[1].op = "set_return_value" /\ log[1].arg = None
    /\ log[2].op = "set_return_value" /\ log[2].arg = PyInt(1)
    /\ log[3].op = "set_return_value" /\ log[3].arg = ExtExpr("x")
    /\ log[4].op = "add" /\ log[4].self = Root
    /\ CompiledCmds(Root)[1].value = None
    /\ CompiledCmds(Root)[4].kind = "stmt"

----------------------------------------------------------------------------
(* C9 *)

\* C9: the node a branch compiles to has the compiled condition and both a
\* then and an else field, each a sequence node with a statement list; a
\* child sequence that received no entry gives the empty statement list.
C9_BranchHasBothSequences ==
    \A k \in 1..Len(log) :
        log[k].op = "if_" =>
            LET c == log[k]
                node == CompiledCmds(c.self)[PosOf(k)]
            IN  /\ DOMAIN node = {"kind", "condition", "then", "else"}
                /\ node.kind = "branch"
                /\ node.condition = Expr_compile(lit_helper(c.arg))
                /\ DOMAIN node.then = {"kind", "cmds"}
                /\ DOMAIN node.else = {"kind", "cmds"}
                /\ node.then.kind = "seq"
                /\ node.else.kind = "seq"
                /\ Len(node.then.cmds) = Len(CallsOn(c.ret[1]))
                /\ Len(node.else.cmds) = Len(CallsOn(c.ret[2]))
                /\ CallsOn(c.ret[1]) = <<>> => node.then.cmds = <<>>
                /\ CallsOn(c.ret[2]) = <<>> => node.else.cmds = <<>>

\* C9 witness: a branch whose success body has an entry and whose failure
\* body has none
C9_Witness ==
    \E k \in 1..Len(log) :
        /\ log[k].op = "if_"
        /\ Len(CallsOn(log[k].ret[1])) = 1
        /\ CallsOn(log[k].ret[2]) = <<>>
        /\ CompiledCmds(log[k].self)[PosOf(k)].else =
              [kind |-> "seq", cmds |-> <<>>]

----------------------------------------------------------------------------
(* redipy.memory.gfun: string.find *)

\* characters of the strings handed to string.find
Alphabet == {"a", "b"}

\* the decimal digits of a non-negative int, as text
RECURSIVE Digits(_)
Digits(n) ==
    LET d == <<"0", "1", "2", "3", "4", "5", "6", "7", "8", "9">>[(n % 10) + 1]
    IN  IF n < 10 THEN <<d>> ELSE Digits(n \div 10) \o <<d>>

\* the digits of n padded with zeros on the left to w characters
RECURSIVE ZeroPad(_, _)
ZeroPad(t, w) == IF Len(t) >= w THEN t ELSE ZeroPad(<<"0">> \o t, w)

RECURSIVE TenTo(_)
TenTo(e) == IF e = 0 THEN 1 ELSE 10 * TenTo(e - 1)

\* the text of the float m / 10^e (m has no trailing zero when e > 0)
FloatText(m, e) ==
    LET a == IF m < 0 THEN -m ELSE m
        whole == Digits(a \div TenTo(e))
        frac == IF e = 0 THEN <<"0">> ELSE ZeroPad(Digits(a % TenTo(e)), e)
    IN  (IF m < 0 THEN <<"-">> ELSE <<>>) \o whole \o <<".">> \o frac

\* f"{value}": the text a value is formatted to (a list or dict, formatted
\* as its repr, is not among the values formatted here)
PyFormat(value) ==
    CASE value.py = "str" -> value.v
      [] value.py = "int" ->
            IF value.v < 0 THEN <<"-">> \o Digits(-value.v) ELSE Digits(value.v)
      [] value.py = "NoneType" -> <<"N", "o", "n", "e">>
      [] value.py = "bool" ->
            IF value.v THEN <<"T", "r", "u", "e">>
            ELSE <<"F", "a", "l", "s", "e">>
      [] value.py = "float" -> FloatText(value.m, value.e)

\* the scan of str.find: the first place from i on where sub lies in text
RECURSIVE str_find_from(_, _, _)
str_find_from(text, sub, i) ==
    IF i + Len(sub) > Len(text) THEN -1
    ELSE IF SubSeq(text, i + 1, i + Len(sub)) = sub THEN i
    ELSE str_find_from(text, sub, i + 1)

\* str.find(sub, start): start None means 0, a negative start counts from
\* the end of the text
str_find(text, sub, start) ==
    LET from == IF start = None THEN 0
                ELSE IF start.v >= 0 THEN start.v
                ELSE IF Len(text) + start.v >= 0 THEN Len(text) + start.v
                ELSE 0
    IN  str_find_from(text, sub, from)

\* GStringFindFn.call searching from the start of the text whatever args[2]
GStringFindFn_call_from_zero(a) ==
    LET found_ix == str_find(PyFormat(a[1]), PyFormat(a[2]), None)
    IN  IF found_ix < 0 THEN None ELSE PyInt(found_ix)

\* GStringFindFn.call
GStringFindFn_call(a) ==
    LET found_ix == str_find(PyFormat(a[1]), PyFormat(a[2]),
                             IF Len(a) > 2 THEN PyInt(a[3].v) ELSE None)
    IN  IF found_ix < 0 THEN None ELSE PyInt(found_ix)

\* the texts of at most MaxStrLen characters
Strings == UNION {[1..k -> Alphabet] : k \in 0..MaxStrLen}

\* haystacks and needles: strings, and ints that get formatted
FindValues == {PyStr(t) : t \in Strings} \cup {PyInt(10), PyInt(0)}

\* argument lists within the arity of string.find (2, at most 3)
FindArgs ==
    {<<h, n>> : h \in FindValues, n \in FindValues}
        \cup {<<h, n, PyInt(st)>> :
                h \in FindValues, n \in FindValues, st \in 0..MaxStart}

\* the interpreter calls string.find with the argument list
string_find ==
    /\ fpc = "ready"
    /\ fret' = GStringFindFn_call(fargs)
    /\ fpc' = "done"
    /\ UNCHANGED <<fargs, fname, stdout, seqs, args, keys, anames, knames,
                   locals, loops, log, ret>>

\* an argument list is about to be handed to string.find
FindInit ==
    /\ seqs = <<(<<>>)>>
    /\ args = <<>>
    /\ keys = <<>>
    /\ anames = {}
    /\ knames = {}
    /\ locals = <<>>
    /\ loops = 0
    /\ log = <<>>
    /\ ret = None
    /\ fargs \in FindArgs
    /\ fret = None
    /\ fpc = "ready"
    /\ fname = "string.find"
    /\ stdout = <<>>

FindNext == string_find

SpecFind == FindInit /\ [][FindNext]_vars

----------------------------------------------------------------------------
(* C10 *)

\* sub lies in text at the 0-based position i
OccursAt(text, sub, i) ==
    /\ i >= 0
    /\ i + Len(sub) <= Len(text)
    /\ \A j \in 1..Len(sub) : text[i + j] = sub[j]

\* C10: string.find(h, n) and string.find(h, n, s) with s >= 0 (s is 0 when
\* left out) return the smallest 0-based position i >= s at which n lies in
\* h, and nil exactly when n lies in h at no position >= s; the result is
\* never a negative number.
C10_FindFirstOccurrence ==
    fpc = "done" =>
        LET h == PyFormat(fargs[1])
            n == PyFormat(fargs[2])
            s == IF Len(fargs) > 2 THEN fargs[3].v ELSE 0
            found == {i \in s..Len(h) : OccursAt(h, n, i)}
        IN  /\ fret = None <=> found = {}
            /\ fret # None =>
                  /\ fret.py = "int"
                  /\ fret.v >= 0
                  /\ fret.v \in found
                  /\ \A i \in found : fret.v <= i

\* C10 witness: a needle that lies in the haystack before and after the
\* start offset is found at the later place
C10_Witness ==
    /\ fpc = "done"
    /\ fargs = <<PyStr(<<"a", "b", "a">>), PyStr(<<"a">>), PyInt(1)>>
    /\ fret = PyInt(2)

----------------------------------------------------------------------------
(* JSON-compatible values handed to the builtin functions *)

PyBool(b) == [py |-> "bool", v |-> b]
\* a float is kept as a decimal: the number m / 10^e
PyFloat(m, e) == [py |-> "float", m |-> m, e |-> e]
PyList(items) == [py |-> "list", v |-> items]
\* a dict is kept as the function from its keys to its values
PyDict(f) == [py |-> "dict", v |-> f]

\* an exception raised by a builtin function
Raised(cls) == [py |-> cls]

JSONScalars ==
    {PyBool(TRUE), PyBool(FALSE), None}
        \cup {PyInt(n) : n \in {-1, 0, 1, 12}}
        \cup {PyFloat(15, 1), PyFloat(-25, 1), PyFloat(4, 0)}
        \cup {PyStr(t) : t \in Strings}

\* scalars, arrays of at most one scalar, and maps with at most the key "a"
JSONValues ==
    JSONScalars
        \cup {PyList(<<>>)} \cup {PyList(<<x>>) : x \in JSONScalars}
        \cup {PyDict(<<>>)}
        \cup {PyDict([k \in {<<"a">>} |-> x]) : x \in JSONScalars}

----------------------------------------------------------------------------
(* redipy.memory.gfun: type *)

TxtBoolean == <<"b", "o", "o", "l", "e", "a", "n">>
TxtTable == <<"t", "a", "b", "l", "e">>
TxtNumber == <<"n", "u", "m", "b", "e", "r">>
TxtString == <<"s", "t", "r", "i", "n", "g">>
TxtNil == <<"n", "i", "l">>

\* the dict tmap of GTypeFn.call, keyed by the Python type
tmap ==
    [t \in {"bool", "dict", "float", "int", "list", "str", "NoneType"} |->
        CASE t = "bool" -> TxtBoolean
          [] t = "dict" -> TxtTable
          [] t = "float" -> TxtNumber
          [] t = "int" -> TxtNumber
          [] t = "list" -> TxtTable
          [] t = "str" -> TxtString
          [] t = "NoneType" -> TxtNil]

\* GTypeFn.call with isinstance tests, where a bool is an int too
GTypeFn_call_isinstance(a) ==
    LET t == a[1].py
    IN  IF t \in {"int", "bool", "float"} THEN PyStr(TxtNumber)
        ELSE IF t \in DOMAIN tmap THEN PyStr(tmap[t])
        ELSE Raised("KeyError")

\* GTypeFn.call: tmap[type(args[0])], a KeyError for a type not in tmap
GTypeFn_call(a) ==
    LET t == a[1].py
    IN  IF t \in DOMAIN tmap THEN PyStr(tmap[t]) ELSE Raised("KeyError")

\* the interpreter calls type with the argument list
type_ ==
    /\ fpc = "ready"
    /\ fname = "type"
    /\ fret' = GTypeFn_call(fargs)
    /\ fpc' = "done"
    /\ UNCHANGED <<fargs, fname, stdout, seqs, args, keys, anames, knames,
                   locals, loops, log, ret>>

\* argument lists within the arity of type (1)
TypeArgs == {<<x>> : x \in JSONValues}

----------------------------------------------------------------------------
(* redipy.memory.gfun: tonumber *)

\* characters of the texts handed to tonumber: digits, a point, a sign and a
\* letter (no blank, underscore or exponent, which int() and float() would
\* also accept)
NumAlphabet == {"4", "2", ".", "-", "x"}

DigitChars == <<"0", "1", "2", "3", "4", "5", "6", "7", "8", "9">>

IsDigit(c) == \E d \in 1..10 : DigitChars[d] = c

DigitVal(c) == (CHOOSE d \in 1..10 : DigitChars[d] = c) - 1

\* the number a text of digits denotes
RECURSIVE DigitsVal(_)
DigitsVal(t) ==
    IF t = <<>> THEN 0
    ELSE 10 * DigitsVal(SubSeq(t, 1, Len(t) - 1)) + DigitVal(t[Len(t)])

\* a text without its leading sign, and the sign
Unsigned(t) == IF t # <<>> /\ t[1] \in {"-", "+"} THEN Tail(t) ELSE t
SignOf(t) == IF t # <<>> /\ t[1] = "-" THEN -1 ELSE 1

\* int(val): the int of a text of digits with an optional sign, an int
\* itself, a bool as 0 or 1, a float truncated towards zero; ValueError for
\* any other text and TypeError for None, a list or a dict
py_int(val) ==
    CASE val.py = "str" ->
            LET body == Unsigned(val.v)
            IN  IF body # <<>> /\ \A i \in 1..Len(body) : IsDigit(body[i])
                THEN PyInt(SignOf(val.v) * DigitsVal(body))
                ELSE Raised("ValueError")
      [] val.py = "int" -> val
      [] val.py = "bool" -> PyInt(IF val.v THEN 1 ELSE 0)
      [] val.py = "float" ->
            IF val.m >= 0
            THEN PyInt(val.m \div TenTo(val.e))
            ELSE PyInt(-((-val.m) \div TenTo(val.e)))
      [] OTHER -> Raised("TypeError")

\* float(val): the float of a text of digits with an optional sign and at
\* most one point, of an int, bool or float; ValueError for any other text
\* and TypeError for None, a list or a dict
py_float(val) ==
    CASE val.py = "str" ->
            LET body == Unsigned(val.v)
                points == {i \in 1..Len(body) : body[i] = "."}
                digits == SelectSeq(body, IsDigit)
                point == IF points = {} THEN Len(body)
                         ELSE CHOOSE i \in points : TRUE
            IN  IF /\ Cardinality(points) <= 1
                   /\ digits # <<>>
                   /\ Len(digits) + Cardinality(points) = Len(body)
                THEN PyFloat(SignOf(val.v) * DigitsVal(digits),
                             Len(body) - point)
                ELSE Raised("ValueError")
      [] val.py = "int" -> PyFloat(val.v, 0)
      [] val.py = "bool" -> PyFloat(IF val.v THEN 1 ELSE 0, 0)
      [] val.py = "float" -> val
      [] OTHER -> Raised("TypeError")

IsRaised(r) ==
    r.py \in {"ValueError", "TypeError", "KeyError", "JSONDecodeError"}

\* GToNumberFn.call trying the float first
GToNumberFn_call_float_first(a) ==
    LET val == a[1]
    IN  IF ~IsRaised(py_float(val)) THEN py_float(val) ELSE py_int(val)

\* GToNumberFn.call: int(val), and float(val) when that raises ValueError
\* or TypeError
GToNumberFn_call(a) ==
    LET val == a[1]
    IN  IF py_int(val).py \in {"ValueError", "TypeError"}
        THEN py_float(val)
        ELSE py_int(val)

\* the interpreter calls tonumber with the argument list
tonumber ==
    /\ fpc = "ready"
    /\ fname = "tonumber"
    /\ fret' = GToNumberFn_call(fargs)
    /\ fpc' = "done"
    /\ UNCHANGED <<fargs, fname, stdout, seqs, args, keys, anames, knames,
                   locals, loops, log, ret>>

\* the texts of at most MaxStrLen characters handed to tonumber
NumTexts == UNION {[1..k -> NumAlphabet] : k \in 0..MaxStrLen}

\* argument lists within the arity of tonumber (1)
ToNumberArgs ==
    {<<PyStr(t)>> : t \in NumTexts}
        \cup {<<x>> : x \in {PyInt(12), PyBool(TRUE), PyFloat(-25, 1), None,
                             PyList(<<>>)}}

----------------------------------------------------------------------------
(* redipy.memory.gfun: tostring, cjson.encode, cjson.decode, redis.log *)

\* str.lower on the texts a bool is formatted to
Lower(t) ==
    [i \in 1..Len(t) |->
        CASE t[i] = "T" -> "t"
          [] t[i] = "F" -> "f"
          [] OTHER -> t[i]]

\* GToStringFn.call
GToStringFn_call(a) ==
    LET oval == a[1]
    IN  IF oval.py = "bool" THEN PyStr(Lower(PyFormat(oval)))
        ELSE IF oval = None THEN PyStr(TxtNil)
        ELSE PyStr(PyFormat(oval))

\* the JSON string literal of a text: quotes around it, a backslash before
\* a quote or a backslash
RECURSIVE JSONEscape(_)
JSONEscape(t) ==
    IF t = <<>> THEN <<>>
    ELSE (IF t[1] \in {"\"", "\\"} THEN <<"\\", t[1]>> ELSE <<t[1]>>)
             \o JSONEscape(Tail(t))

\* GCJSONEncodeFn.call: json.dumps of the formatted argument
GCJSONEncodeFn_call(a) ==
    PyStr(<<"\"">> \o JSONEscape(PyFormat(a[1])) \o <<"\"">>)

\* characters of the texts handed to cjson.decode
DecodeAlphabet == {"0", "1", "-", "x"}

\* json.loads on a text of DecodeAlphabet characters or a formatted scalar:
\* a JSON integer (no leading zero) or one of the three literals is a
\* value, anything else a JSONDecodeError
json_loads(t) ==
    LET body == IF t # <<>> /\ t[1] = "-" THEN Tail(t) ELSE t
    IN  IF /\ body # <<>>
           /\ \A i \in 1..Len(body) : IsDigit(body[i])
           /\ Len(body) > 1 => body[1] # "0"
        THEN PyInt(SignOf(t) * DigitsVal(body))
        ELSE IF t = <<"n", "u", "l", "l">> THEN None
        ELSE IF t = <<"t", "r", "u", "e">> THEN PyBool(TRUE)
        ELSE IF t = <<"f", "a", "l", "s", "e">> THEN PyBool(FALSE)
        ELSE Raised("JSONDecodeError")

\* GCJSONDecodeFn.call
GCJSONDecodeFn_call(a) == json_loads(PyFormat(a[1]))

\* the line redis.log prints, without the separating blank
GRedisLogFn_line_no_blank(a) == PyFormat(a[1]) \o <<":">> \o PyFormat(a[2])

\* the line redis.log prints: f"{args[0]}: {args[1]}"
GRedisLogFn_line(a) == PyFormat(a[1]) \o <<":", " ">> \o PyFormat(a[2])

\* the interpreter calls tostring with the argument list
tostring ==
    /\ fpc = "ready"
    /\ fname = "tostring"
    /\ fret' = GToStringFn_call(fargs)
    /\ fpc' = "done"
    /\ UNCHANGED <<fargs, fname, stdout, seqs, args, keys, anames, knames,
                   locals, loops, log, ret>>

\* the interpreter calls cjson.encode with the argument list
cjson_encode ==
    /\ fpc = "ready"
    /\ fname = "cjson.encode"
    /\ fret' = GCJSONEncodeFn_call(fargs)
    /\ fpc' = "done"
    /\ UNCHANGED <<fargs, fname, stdout, seqs, args, keys, anames, knames,
                   locals, loops, log, ret>>

\* the interpreter calls cjson.decode with the argument list
cjson_decode ==
    /\ fpc = "ready"
    /\ fname = "cjson.decode"
    /\ fret' = GCJSONDecodeFn_call(fargs)
    /\ fpc' = "done"
    /\ UNCHANGED <<fargs, fname, stdout, seqs, args, keys, anames, knames,
                   locals, loops, log, ret>>

\* the interpreter calls redis.log with the argument list: print, return None
redis_log ==
    /\ fpc = "ready"
    /\ fname = "redis.log"
    /\ stdout' = Append(stdout, GRedisLogFn_line(fargs))
    /\ fret' = None
    /\ fpc' = "done"
    /\ UNCHANGED <<fargs, fname, seqs, args, keys, anames, knames,
                   locals, loops, log, ret>>

\* the interpreter calls string.find by its dispatch name
string_find_by_name == fname = "string.find" /\ string_find

\* argument lists of tostring and cjson.encode (1 argument)
ScalarArgs == {<<x>> : x \in JSONScalars}

\* argument lists of cjson.decode (1 argument)
DecodeArgs ==
    {<<PyStr(t)>> : t \in UNION {[1..k -> DecodeAlphabet] : k \in 0..MaxStrLen}}
        \cup {<<x>> : x \in {PyInt(12), PyBool(TRUE), None}}

\* argument lists of redis.log (2 arguments)
LogArgs ==
    LET vals == {PyStr(t) : t \in Strings} \cup {PyInt(12)}
    IN  {<<level, message>> : level \in vals, message \in vals}

\* the catalog: dispatch names and the argument lists drawn for each
BuiltinNames ==
    {"string.find", "cjson.decode", "cjson.encode", "tonumber", "tostring",
     "type", "redis.log"}

ArgsOf(name) ==
    CASE name = "string.find" -> FindArgs
      [] name = "cjson.decode" -> DecodeArgs
      [] name = "cjson.encode" -> ScalarArgs
      [] name = "tonumber" -> ToNumberArgs
      [] name = "tostring" -> ScalarArgs
      [] name = "type" -> TypeArgs
      [] name = "redis.log" -> LogArgs

\* a line the sink may hold from an earlier call
EarlierLine == <<"o", "k">>

\* a builtin is about to be called; the sink is empty or holds a line
BuiltinInit ==
    /\ seqs = <<(<<>>)>>
    /\ args = <<>>
    /\ keys = <<>>
    /\ anames = {}
    /\ knames = {}
    /\ locals = <<>>
    /\ loops = 0
    /\ log = <<>>
    /\ ret = None
    /\ fname \in BuiltinNames
    /\ fargs \in ArgsOf(fname)
    /\ fret = None
    /\ fpc = "ready"
    /\ stdout \in {<<>>, <<EarlierLine>>}

BuiltinNext ==
    \/ string_find_by_name
    \/ cjson_decode
    \/ cjson_encode
    \/ tonumber
    \/ tostring
    \/ type_
    \/ redis_log

SpecBuiltin == BuiltinInit /\ [][BuiltinNext]_vars

----------------------------------------------------------------------------
(* C11 *)

\* C11: type returns a name for every JSON-compatible value, and exactly
\* this one: "boolean" for a boolean (not "number"), "number" for an integer
\* or a float, "string" for a string, "nil" for nil, "table" for a map and
\* for an array.
C11_TypeNames ==
    (fname = "type" /\ fpc = "done") =>
        LET x == fargs[1]
        IN  /\ ~IsRaised(fret)
            /\ fret.py = "str"
            /\ fret.v \in {TxtBoolean, TxtNumber, TxtString, TxtNil, TxtTable}
            /\ fret.v = TxtBoolean <=> x.py = "bool"
            /\ fret.v = TxtNumber <=> x.py \in {"int", "float"}
            /\ fret.v = TxtString <=> x.py = "str"
            /\ fret.v = TxtNil <=> x = None
            /\ fret.v = TxtTable <=> x.py \in {"dict", "list"}

\* C11 witness: type(true) has returned "boolean"
C11_Witness ==
    /\ fname = "type"
    /\ fpc = "done"
    /\ fargs = <<PyBool(TRUE)>>
    /\ fret = PyStr(TxtBoolean)

----------------------------------------------------------------------------
(* C12 *)

DigitSet == {"0", "1", "2", "3", "4", "5", "6", "7", "8", "9"}

\* t is an integer text: an optional sign and then digits only
IsIntText(t) ==
    LET body == Unsigned(t)
    IN  body # <<>> /\ \A i \in 1..Len(body) : body[i] \in DigitSet

\* t is a decimal text: an optional sign, then digits with at most one
\* point among them and at least one digit
IsFloatText(t) ==
    LET body == Unsigned(t)
    IN  /\ \A i \in 1..Len(body) : body[i] \in DigitSet \cup {"."}
        /\ \E i \in 1..Len(body) : body[i] \in DigitSet
        /\ \A i, j \in 1..Len(body) : (body[i] = "." /\ body[j] = ".") => i = j

\* the integer parse / the floating-point parse of val succeeds
IntParses(val) ==
    CASE val.py = "str" -> IsIntText(val.v)
      [] val.py \in {"int", "bool", "float"} -> TRUE
      [] OTHER -> FALSE
FloatParses(val) ==
    CASE val.py = "str" -> IsFloatText(val.v)
      [] val.py \in {"int", "bool", "float"} -> TRUE
      [] OTHER -> FALSE

\* C12: when the integer parse of the argument succeeds tonumber returns
\* that integer; only when it fails is the floating-point parse tried and
\* its float returned; when neither succeeds the call raises a conversion
\* error and returns no value.
C12_IntFirstThenFloat ==
    (fname = "tonumber" /\ fpc = "done") =>
        LET val == fargs[1]
        IN  /\ IntParses(val) =>
                  /\ fret.py = "int"
                  /\ val.py = "str" =>
                        /\ Unsigned(val.v) = Digits(fret.v * SignOf(val.v))
                        /\ fret.v < 0 <=> val.v[1] = "-"
            /\ (~IntParses(val) /\ FloatParses(val)) =>
                  /\ fret.py = "float"
                  /\ SelectSeq(Unsigned(val.v), IsDigit)
                        = Digits(fret.m * SignOf(val.v))
                  /\ fret.e = Cardinality(
                        {i \in 1..Len(val.v) :
                            \E j \in 1..(i - 1) : val.v[j] = "."})
            /\ (~IntParses(val) /\ ~FloatParses(val)) =>
                  fret.py \in {"ValueError", "TypeError"}

\* C12 witness: the text "4.2" is no integer text and has given the float
C12_Witness ==
    /\ fname = "tonumber"
    /\ fpc = "done"
    /\ fargs = <<PyStr(<<"4", ".", "2">>)>>
    /\ fret = PyFloat(42, 1)

----------------------------------------------------------------------------
(* C13 *)

\* C13: a call of redis.log appends exactly the one line "{level}:
\* {message}" to the log sink and returns nil; a call of any other builtin
\* of the catalog leaves the log sink as it was; no call changes anything
\* but its result (and, for redis.log, the sink).
C13_OnlyLogWritesTheSink ==
    [][(fpc = "ready" /\ fpc' = "done") =>
          /\ UNCHANGED <<seqs, args, keys, anames, knames, locals, loops,
                         log, ret, fargs, fname>>
          /\ IF fname = "redis.log"
             THEN /\ Len(stdout') = Len(stdout) + 1
                  /\ SubSeq(stdout', 1, Len(stdout)) = stdout
                  /\ stdout'[Len(stdout')] =
                        PyFormat(fargs[1]) \o <<":", " ">> \o PyFormat(fargs[2])
                  /\ fret' = None
             ELSE stdout' = stdout]_vars

\* C13 witness: redis.log("a", "b") has added the line "a: b" to a sink
\* that held a line before
C13_Witness ==
    /\ fname = "redis.log"
    /\ fpc = "done"
    /\ fargs = <<PyStr(<<"a">>), PyStr(<<"b">>)>>
    /\ stdout = <<EarlierLine, <<"a", ":", " ", "b">>>>
    /\ fret = None

----------------------------------------------------------------------------
(* C14 *)

\* the number of successful calls of op among the first k calls
SuccessesUpTo(op, k) ==
    Cardinality({i \in 1..k : log[i].op = op /\ log[i].ok})

\* after a failed call k, a later successful call j of the same operation
\* has the index it would have without call k: the successes before it
IndexAfterFailure ==
    \A k \in 1..Len(log) :
        \A j \in (k + 1)..Len(log) :
            (~log[k].ok /\ log[j].op = log[k].op /\ log[j].ok) =>
                log[j].ret.index =
                    SuccessesUpTo(log[k].op, k - 1)
                        + (SuccessesUpTo(log[k].op, j - 1)
                             - SuccessesUpTo(log[k].op, k))

\* C14: a call of add_arg or add_key that fails on a duplicate name changes
\* nothing in the script scope: the registered arguments, keys and locals,
\* the two name sets, the loop counter, all statement lists and so the
\* compiled script stay as they were; the next declaration that succeeds in
\* that namespace gets the index it would have got without the failed call.
C14_FailedDeclarationChangesNothing ==
    [][/\ (Len(log') = Len(log) + 1 /\ ~log'[Len(log')].ok) =>
              /\ log'[Len(log')].op \in {"add_arg", "add_key"}
              /\ UNCHANGED <<seqs, args, keys, anames, knames, locals, loops>>
              /\ FnContext_compile' = FnContext_compile
       /\ IndexAfterFailure'
      ]_vars

\* C14 witness: key "a" declared, declared again and refused, then key "b"
\* declared with index 1, the compiled script listing the keys a and b
C14_Witness ==
    /\ Len(log) >= 3
    /\ log[1].op = "add_key" /\ log[1].arg = "a" /\ log[1].ok
    /\ log[2].op = "add_key" /\ log[2].arg = "a" /\ ~log[2].ok
    /\ log[3].op = "add_key" /\ log[3].arg = "b" /\ log[3].ok
    /\ log[3].ret.index = 1
    /\ FnContext_compile.keyv = <<"a", "b">>
    /\ Len(FnContext_compile.cmds) = 2

----------------------------------------------------------------------------
(* compile as a call of the client *)

\* self.compile(): FnContext.compile for the script scope, Seq.compile for
\* every other sequence
Sequence_compile(self) ==
    IF self = Root THEN FnContext_compile ELSE Seq_compile(seqs, self)

\* self.compile() taking the entries out of the list while compiling them
compile_draining(self) ==
    /\ Len(log) < MaxCalls
    /\ ret' = Sequence_compile(self)
    /\ seqs' = [seqs EXCEPT ![self] = <<>>]
    /\ log' = Append(log, Call("compile", self, None, TRUE, ret'))
    /\ UNCHANGED <<args, keys, anames, knames, locals, loops>>

\* self.compile() on any sequence
compile(self) ==
    /\ Len(log) < MaxCalls
    /\ ret' = Sequence_compile(self)
    /\ log' = Append(log, Call("compile", self, None, TRUE, ret'))
    /\ UNCHANGED <<seqs, args, keys, anames, knames, locals, loops>>

\* builder calls and compile calls in any order
CompileNext ==
    \/ \E self \in 1..Len(seqs) : add(self, ExtExpr("x")) /\ UNCHANGED fvars
    \/ \E self \in 1..Len(seqs) : for_(self, ExtExpr("x")) /\ UNCHANGED fvars
    \/ \E self \in 1..Len(seqs), condition \in Conds :
          if_(self, condition) /\ UNCHANGED fvars
    \/ \E self \in 1..Len(seqs), condition \in Conds :
          while_(self, condition) /\ UNCHANGED fvars
    \/ \E name \in Names : add_arg(name) /\ UNCHANGED fvars
    \/ \E name \in Names : add_key(name) /\ UNCHANGED fvars
    \/ \E init \in Inits : add_local(init) /\ UNCHANGED fvars
    \/ set_return_value(None) /\ UNCHANGED fvars
    \/ \E self \in 1..Len(seqs) : compile(self) /\ UNCHANGED fvars

SpecCompile == Init /\ [][CompileNext]_vars

----------------------------------------------------------------------------
(* C15 *)

\* what the compile calls of the history returned agrees with a scope that
\* compile never changed
CompileLeftNoTrace ==
    /\ \A k \in 1..(Len(log) - 1) :
          (/\ log[k].op = "compile"
           /\ log[k + 1].op = "compile"
           /\ log[k + 1].self = log[k].self) => log[k + 1].ret = log[k].ret
    /\ \A k \in 1..Len(log) :
          (/\ log[k].op = "compile"
           /\ \A j \in (k + 1)..Len(log) : log[j].op = "compile") =>
              log[k].ret = Sequence_compile(log[k].self)
    /\ \A op \in DeclOps :
          /\ Len(Registered(op)) = Len(Successes(op))
          /\ \A k \in 1..Len(Successes(op)) :
                Successes(op)[k].ret.index = k - 1
    /\ loops = Len(Successes("for_"))
    /\ \A k \in 1..Len(Successes("for_")) :
          /\ Successes("for_")[k].ret[2].index = k - 1
          /\ Successes("for_")[k].ret[3].index = k - 1

\* C15: a compile call on the script scope or on any sequence changes no
\* statement list, none of the declared arguments, keys and locals, neither
\* name set and not the loop counter; two compile calls of one sequence
\* with no builder call in between return equal trees, and declarations and
\* loops made after a compile are numbered as if it had not happened.
C15_CompileIsReadOnly ==
    [][/\ (Len(log') = Len(log) + 1 /\ log'[Len(log')].op = "compile") =>
              /\ UNCHANGED <<seqs, args, keys, anames, knames, locals, loops>>
              /\ \A s \in 1..Len(seqs) :
                    Sequence_compile(s)' = Sequence_compile(s)
       /\ CompileLeftNoTrace'
      ]_vars

\* C15 witness: a loop, the script compiled twice with equal results, then a
\* second loop, which gets id 1
C15_Witness ==
    /\ Len(log) = 4
    /\ log[1].op = "for_" /\ log[1].self = Root
    /\ log[2].op = "compile" /\ log[2].self = Root
    /\ log[3].op = "compile" /\ log[3].self = Root
    /\ log[2].ret = log[3].ret
    /\ Len(log[3].ret.cmds) = 1
    /\ log[4].op = "for_" /\ log[4].ret[2].index = 1
    /\ Len(Sequence_compile(Root).cmds) = 2

====
